---- MODULE Spec2Model ----
(***************************************************************************)
(* The IPv6 engine of src/src/utils/ipv6.ts as a state machine whose       *)
(* steps are calls of its exported functions.                              *)
(*                                                                         *)
(* A JavaScript string is modelled as the sequence of its characters       *)
(* (one-character TLA+ strings), so that split, trim, padStart, parseInt   *)
(* and toString are computed character by character as the engine does.    *)
(* A JavaScript array of strings is a sequence of such sequences.          *)
(***************************************************************************)
EXTENDS Integers, Sequences, FiniteSets, TLC

(***************************************************************************)
(* JavaScript primitives used by ipv6.ts                                   *)
(***************************************************************************)

\* The value parseInt yields when no digit can be read, and toString's input
\* for it.  No call of the engine produces a negative number otherwise (the
\* modelled alphabet has no sign character).
NaN == 0 - 1

\* null, the absent result of calculateIPv6Subnet (a result object has the
\* same fields and null |-> FALSE).
Null ==
  [null |-> TRUE, networkAddress |-> <<>>, lastAddress |-> <<>>,
   totalAddresses |-> <<>>]

\* Characters String.prototype.trim and parseInt treat as white space (the
\* input texts use the space only).
WhiteSpace == {" "}

\* Digit values parseInt reads (either case) for radixes up to 16.
DigitValue ==
  ("0" :> 0) @@ ("1" :> 1) @@ ("2" :> 2) @@ ("3" :> 3) @@ ("4" :> 4) @@
  ("5" :> 5) @@ ("6" :> 6) @@ ("7" :> 7) @@ ("8" :> 8) @@ ("9" :> 9) @@
  ("a" :> 10) @@ ("b" :> 11) @@ ("c" :> 12) @@ ("d" :> 13) @@ ("e" :> 14) @@
  ("f" :> 15) @@ ("A" :> 10) @@ ("B" :> 11) @@ ("C" :> 12) @@ ("D" :> 13) @@
  ("E" :> 14) @@ ("F" :> 15)

\* Digits Number.prototype.toString writes (always lower case).
DigitChar == <<"0", "1", "2", "3", "4", "5", "6", "7", "8", "9",
               "a", "b", "c", "d", "e", "f">>

IsDigit(c, radix) == c \in DOMAIN DigitValue /\ DigitValue[c] < radix

\* String.prototype.split(sep) for a non-empty separator: the pieces between
\* the non-overlapping occurrences of sep, found left to right.
RECURSIVE SplitFrom(_, _, _, _)
SplitFrom(s, sep, i, cur) ==
  IF i > Len(s) THEN <<cur>>
  ELSE IF i + Len(sep) - 1 <= Len(s) /\ SubSeq(s, i, i + Len(sep) - 1) = sep
       THEN <<cur>> \o SplitFrom(s, sep, i + Len(sep), <<>>)
       ELSE SplitFrom(s, sep, i + 1, Append(cur, s[i]))

Split(s, sep) == SplitFrom(s, sep, 1, <<>>)

\* Array.prototype.join(sep).
RECURSIVE Join(_, _)
Join(arr, sep) ==
  IF arr = <<>> THEN <<>>
  ELSE IF Len(arr) = 1 THEN arr[1]
       ELSE arr[1] \o sep \o Join(Tail(arr), sep)

\* (s.match(re) || []).length for a global regular expression matching the
\* literal text pat: the number of non-overlapping occurrences, left to right.
RECURSIVE MatchCountFrom(_, _, _)
MatchCountFrom(s, pat, i) ==
  IF i + Len(pat) - 1 > Len(s) THEN 0
  ELSE IF SubSeq(s, i, i + Len(pat) - 1) = pat
       THEN 1 + MatchCountFrom(s, pat, i + Len(pat))
       ELSE MatchCountFrom(s, pat, i + 1)

MatchCount(s, pat) == MatchCountFrom(s, pat, 1)

\* String.prototype.trim.
RECURSIVE TrimStart(_)
TrimStart(s) ==
  IF s # <<>> /\ Head(s) \in WhiteSpace THEN TrimStart(Tail(s)) ELSE s

RECURSIVE TrimEnd(_)
TrimEnd(s) ==
  IF s # <<>> /\ s[Len(s)] \in WhiteSpace
  THEN TrimEnd(SubSeq(s, 1, Len(s) - 1)) ELSE s

Trim(s) == TrimEnd(TrimStart(s))

\* "c".repeat(n) for n >= 0 (a negative n throws RangeError: see the callers).
Repeat(c, n) == [i \in 1..n |-> c]

\* String.prototype.padStart(n, c).
PadStart(s, n, c) == IF Len(s) >= n THEN s ELSE Repeat(c, n - Len(s)) \o s

\* String.prototype.substring(0, end): a negative end counts as 0, an end past
\* the string as its length.
Substring0(s, end) ==
  IF end <= 0 THEN <<>>
  ELSE IF end >= Len(s) THEN s ELSE SubSeq(s, 1, end)

\* String.prototype.substr(start, length), start within the string.
Substr(s, start, length) ==
  SubSeq(s, start + 1, IF start + length > Len(s) THEN Len(s) ELSE start + length)

\* parseInt(s, radix): leading white space is skipped, then the longest run of
\* digits of the radix is read; NaN when there is none.  (A sign and a 0x
\* prefix are read too by parseInt; the input texts hold neither.)
RECURSIVE ReadDigits(_, _, _, _)
ReadDigits(s, radix, i, acc) ==
  IF i <= Len(s) /\ IsDigit(s[i], radix)
  THEN ReadDigits(s, radix, i + 1, acc * radix + DigitValue[s[i]])
  ELSE acc

ParseInt(s, radix) ==
  LET t == TrimStart(s) IN
  IF t = <<>> \/ ~IsDigit(t[1], radix) THEN NaN ELSE ReadDigits(t, radix, 1, 0)

\* Number.prototype.toString(radix) of NaN or of a non-negative integer.
RECURSIVE DigitsOf(_, _)
DigitsOf(n, radix) ==
  IF n < radix THEN <<DigitChar[n + 1]>>
  ELSE Append(DigitsOf(n \div radix, radix), DigitChar[(n % radix) + 1])

NumToString(n, radix) ==
  IF n = NaN THEN <<"N", "a", "N">> ELSE DigitsOf(n, radix)

\* /^[0-9A-Fa-f]{1,4}$/.test(s)
IsHex1to4(s) ==
  /\ Len(s) >= 1
  /\ Len(s) <= 4
  /\ \A i \in 1..Len(s) : IsDigit(s[i], 16)

(***************************************************************************)
(* src/src/utils/ipv6.ts                                                   *)
(***************************************************************************)

Colon == <<":">>
DoubleColon == <<":", ":">>
Zeros4 == <<"0", "0", "0", "0">>

\* The number of groups of a full address (ipv6.ts:30, 61), the most groups
\* beside a :: (ipv6.ts:27), the digits of a group
\* (ipv6.ts:57), the bits of a group (ipv6.ts:79) and of an address (ipv6.ts:83).
GroupCount == 8
MaxGroupsAroundElision == 7
GroupDigits == 4
GroupBits == 16
AddressBits == 128

\* How a call ends: by returning a value or by throwing (RangeError).
Return(v) == [completion |-> "return", value |-> v]
Throw == [completion |-> "throw", value |-> <<>>]

\* parts[k] ? parts[k].split(':') : []   (parts[k] undefined or "" gives [])
GroupsOfPart(parts, k) ==
  IF k <= Len(parts) /\ parts[k] # <<>> THEN Split(parts[k], Colon) ELSE <<>>

\* segments.every(segment => ...) of isValidIPv6Address.
SegmentOk(segment) ==
  IF segment = <<>> THEN TRUE
  ELSE IF Len(segment) > GroupDigits THEN FALSE
       ELSE IsHex1to4(segment)

isValidIPv6Address(address0) ==
  IF address0 = <<>> THEN FALSE
  ELSE
    LET address == Trim(address0)
        doubleColonCount == MatchCount(address, DoubleColon)
        segments == Split(address, Colon)
        parts == Split(address, DoubleColon)
        before == GroupsOfPart(parts, 1)
        after == GroupsOfPart(parts, 2)
    IN IF doubleColonCount > 1 THEN FALSE
       ELSE IF doubleColonCount = 1 /\ Len(before) + Len(after) > MaxGroupsAroundElision
            THEN FALSE
       ELSE IF doubleColonCount # 1 /\ Len(segments) # GroupCount THEN FALSE
       ELSE \A i \in 1..Len(segments) : SegmentOk(segments[i])

\* before.map(x => x.padStart(4, '0'))
PadGroups(groups) ==
  [i \in 1..Len(groups) |-> PadStart(groups[i], GroupDigits, "0")]

\* expandIPv6Address: Array(missing) throws RangeError when missing < 0.
expandIPv6Address(address) ==
  IF address = <<>> THEN Return(<<>>)
  ELSE
    LET parts == Split(address, DoubleColon) IN
    IF Len(parts) > 2 THEN Return(<<>>)
    ELSE
      LET before == PadGroups(GroupsOfPart(parts, 1))
          after == PadGroups(GroupsOfPart(parts, 2))
          missing == GroupCount - (Len(before) + Len(after))
      IN IF missing < 0 THEN Throw
         ELSE LET zeros == [i \in 1..missing |-> Zeros4]
                  full == before \o zeros \o after
              IN Return(Join(full, Colon))

\* s => parseInt(s, 16).toString(16)
StripGroup(s) == NumToString(ParseInt(s, 16), 16)

StripGroups(groups) == [i \in 1..Len(groups) |-> StripGroup(groups[i])]

\* The loop of compressIPv6Address over segments[i], i = 0 .. length-1; z holds
\* the four loop variables (positions are 0-based as in the code).
\* StrictlyLonger with >= for >: a tie would move the longest run to the
\* later one.
LongerOrEqual(current, longest) == current >= longest

StrictlyLonger(current, longest) == current > longest

RECURSIVE ZeroScan(_, _, _)
ZeroScan(segments, i, z) ==
  IF i >= Len(segments) THEN z
  ELSE IF segments[i + 1] = Zeros4
       THEN LET start == IF z.currentZeroStart = 0 - 1 THEN i
                         ELSE z.currentZeroStart
                length == z.currentZeroLength + 1
                grown == StrictlyLonger(length, z.longestZeroLength)
            IN ZeroScan(segments, i + 1,
                 [longestZeroStart |-> IF grown THEN start ELSE z.longestZeroStart,
                  longestZeroLength |-> IF grown THEN length ELSE z.longestZeroLength,
                  currentZeroStart |-> start,
                  currentZeroLength |-> length])
       ELSE ZeroScan(segments, i + 1,
              [z EXCEPT !.currentZeroStart = 0 - 1, !.currentZeroLength = 0])

LongestZeroRun(segments) ==
  ZeroScan(segments, 0,
    [longestZeroStart |-> 0 - 1, longestZeroLength |-> 0,
     currentZeroStart |-> 0 - 1, currentZeroLength |-> 0])

\* [...before, '', ...after].join(':')
JoinAroundRun(before, after) == Join(before \o <<<<>>>> \o after, Colon)

\* The shortest run that is compressed (ipv6.ts:132).
MinRun == 2

compressIPv6Address(address) ==
  LET segments == Split(address, Colon)
      z == LongestZeroRun(segments)
  IN IF z.longestZeroLength >= MinRun
     THEN LET before == StripGroups(SubSeq(segments, 1, z.longestZeroStart))
              after == StripGroups(SubSeq(segments,
                         z.longestZeroStart + z.longestZeroLength + 1,
                         Len(segments)))
          IN JoinAroundRun(before, after)
     ELSE Join(StripGroups(segments), Colon)

\* binary: each group of the expanded address as 16 binary digits.
RECURSIVE ConcatAll(_)
ConcatAll(arr) == IF arr = <<>> THEN <<>> ELSE Head(arr) \o ConcatAll(Tail(arr))

ToBinary(expandedAddress) ==
  LET groups == Split(expandedAddress, Colon) IN
  ConcatAll([i \in 1..Len(groups) |->
    PadStart(NumToString(ParseInt(groups[i], 16), 2), GroupBits, "0")])

\* binary.substring(0, prefixLength) + fill.repeat(128 - prefixLength)
ApplyMask(binary, prefixLength, fill) ==
  Substring0(binary, prefixLength) \o Repeat(fill, AddressBits - prefixLength)

\* The for loop i = 0, 16, .. < 128 converting back to hex groups.
ToHexGroups(bits) ==
  [k \in 1..(AddressBits \div GroupBits) |->
    PadStart(NumToString(ParseInt(Substr(bits, (k - 1) * GroupBits, GroupBits), 2), 16),
             GroupDigits, "0")]

\* TotalAddresses without the case totalBits === 0.
TotalAddressesAlwaysPower(totalBits) == <<"2", "^">> \o NumToString(totalBits, 10)

\* `2^${totalBits}` or '1'
TotalAddresses(totalBits) ==
  IF totalBits = 0 THEN <<"1">> ELSE <<"2", "^">> \o NumToString(totalBits, 10)

\* The locals of calculateIPv6Subnet when it reaches its return statement;
\* NoLocals when it returns null before (early, or from the catch block:
\* expandIPv6Address or '0'.repeat(128 - prefixLength) threw RangeError).
NoLocals ==
  [reached |-> FALSE, expandedAddress |-> <<>>, networkAddress |-> <<>>,
   lastAddress |-> <<>>, totalBits |-> 0]

calculateLocals(address, prefixLength) ==
  LET expandedAddress == expandIPv6Address(address) IN
  IF expandedAddress.completion = "throw" THEN NoLocals
  ELSE IF expandedAddress.value = <<>> THEN NoLocals
  ELSE IF AddressBits - prefixLength < 0 THEN NoLocals
  ELSE LET binary == ToBinary(expandedAddress.value) IN
       [reached |-> TRUE,
        expandedAddress |-> expandedAddress.value,
        networkAddress |-> ToHexGroups(ApplyMask(binary, prefixLength, "0")),
        lastAddress |-> ToHexGroups(ApplyMask(binary, prefixLength, "1")),
        totalBits |-> AddressBits - prefixLength]

ResultOf(l) ==
  IF ~l.reached THEN Null
  ELSE [null |-> FALSE,
        networkAddress |-> compressIPv6Address(Join(l.networkAddress, Colon)),
        lastAddress |-> compressIPv6Address(Join(l.lastAddress, Colon)),
        totalAddresses |-> TotalAddresses(l.totalBits)]

calculateIPv6Subnet(address, prefixLength) ==
  ResultOf(calculateLocals(address, prefixLength))

(***************************************************************************)
(* The inputs: bounded sets of address texts and prefix lengths            *)
(***************************************************************************)

\* White-space characters before and after an address text: 0..MaxWhite each.
MaxWhite == 1
\* Groups in a text of the colon-structure family: 0..MaxGroups.
MaxGroups == 9
\* Colons of such a text beyond the single colons between its groups.
MaxExtraColons == 2
\* Prefix lengths range over -MaxOutside .. 128 + MaxOutside.
MaxOutside == 1

G0 == <<"0">>
G1 == <<"1">>
G2001 == <<"2", "0", "0", "1">>
Gdb8 == <<"d", "b", "8">>
GDB8 == <<"D", "B", "8">>
Gffff == <<"f", "f", "f", "f">>
Ga5c3 == <<"a", "5", "c", "3">>

\* Family A: the 8-group texts whose groups are "0" or "1" (every pattern of
\* zero runs), and each of them with one maximal zero run written as "::".
ZeroPatterns == [1..GroupCount -> {G0, G1}]

IsMaximalZeroRun(g, i, j) ==
  /\ i <= j
  /\ \A k \in i..j : g[k] = G0
  /\ (i = 1 \/ g[i - 1] # G0)
  /\ (j = Len(g) \/ g[j + 1] # G0)

Elide(g, i, j) ==
  Join(SubSeq(g, 1, i - 1), Colon) \o DoubleColon \o Join(SubSeq(g, j + 1, Len(g)), Colon)

PatternTexts ==
  {Join(g, Colon) : g \in ZeroPatterns}
  \cup {Elide(g[1], g[2], g[3]) :
          g \in {h \in ZeroPatterns \X (1..GroupCount) \X (1..GroupCount) :
                   IsMaximalZeroRun(h[1], h[2], h[3])}}

\* Family B: n <= MaxGroups groups "1" with the colons between them, plus at
\* most MaxExtraColons further colons placed before, between or after the
\* groups (so "::", ":::", two "::", a leading or trailing ":" all occur, with
\* too few, exactly enough and too many groups).
ColonsAt(extras, k) == Cardinality({m \in DOMAIN extras : extras[m] = k})

RECURSIVE ColonText(_, _, _)
ColonText(n, extras, k) ==
  LET colons == Repeat(":", (IF k >= 1 /\ k < n THEN 1 ELSE 0) + ColonsAt(extras, k))
  IN IF k >= n THEN colons
     ELSE colons \o G1 \o ColonText(n, extras, k + 1)

ColonTexts ==
  UNION {{ColonText(n, extras, 0) :
            extras \in UNION {[1..m -> 0..n] : m \in 0..MaxExtraColons}} :
         n \in 0..MaxGroups}

\* Family C: one group of special content (leading zeros, upper case, a
\* non-hexadecimal character, five digits, white space inside) at the start,
\* the end or the middle of an address.
SpecialGroups ==
  {<<"0", "0", "0", "0">>, <<"0", "0", "0", "1">>, <<"0", "1", "0">>, Gdb8, GDB8,
   Gffff, <<"F", "f", "E", "0">>, <<"g">>, <<"1", "g">>,
   <<"1", "2", "3", "4", "5">>, <<"1", " ">>, <<" ">>}

ContentTexts ==
  UNION {{x \o DoubleColon,
          DoubleColon \o x,
          Join(<<G1, G1, G1, x, G1, G1, G1, G1>>, Colon)} : x \in SpecialGroups}

\* Family D: addresses checked with every prefix length.
CoreAddresses ==
  {Join(<<G2001, Gdb8>>, Colon) \o DoubleColon \o G1,
   Join(<<G2001, Gdb8>>, Colon) \o DoubleColon,
   Join(<<G2001, GDB8>>, Colon) \o DoubleColon \o Join(<<Ga5c3, G1>>, Colon),
   DoubleColon \o G1,
   DoubleColon,
   G1 \o DoubleColon,
   Join([i \in 1..GroupCount |-> Gffff], Colon),
   Join(<<Ga5c3, G0, G0, Gffff, G0, G0, Ga5c3, Gdb8>>, Colon),
   Join(<<G1, G1, G1>>, Colon),
   <<"1", "2", "3", "4", "5">> \o DoubleColon}

Padded(texts) ==
  {Repeat(" ", l) \o t \o Repeat(" ", r) :
     l \in 0..MaxWhite, r \in 0..MaxWhite, t \in texts}

CoreTexts == Padded(CoreAddresses)

AddressTexts ==
  {<<>>} \cup PatternTexts \cup ColonTexts \cup Padded(ContentTexts) \cup CoreTexts

PrefixLengths == (0 - MaxOutside)..(AddressBits + MaxOutside)

\* The prefix lengths tried with every text: those at a group boundary, the
\* two nearest each end of the range, and those outside it.
SamplePrefixLengths ==
  {p \in PrefixLengths : p <= 1 \/ p >= AddressBits - 1 \/ p % GroupBits = 0}

CalculateInputs ==
  (CoreTexts \X PrefixLengths) \cup (AddressTexts \X SamplePrefixLengths)

(***************************************************************************)
(* The state machine: one call of an exported function on drawn inputs     *)
(***************************************************************************)

VARIABLES
  call,          \* the function called, "none" before the call
  address,       \* its address argument
  prefixLength,  \* its prefixLength argument (calculateIPv6Subnet only)
  completion,    \* how the call ended: "return" or "throw" ("pending" before)
  valid,         \* what isValidIPv6Address returned
  expanded,      \* what expandIPv6Address returned
  results,       \* what calculateIPv6Subnet returned
  locals         \* calculateIPv6Subnet's locals at its return statement

vars == <<call, address, prefixLength, completion, valid, expanded, results, locals>>

\* The page of src/src/App.tsx: the mounted form and what its handlers left
\* behind.  The engine calls above leave the page alone, and the page's steps
\* leave the record of the engine call alone.
VARIABLES
  mode,                  \* App's mode: "ipv4" or "ipv6", the mounted form
  SubnetCalculator,      \* the state of the IPv4 form (its useState cells)
  IPv6SubnetCalculator,  \* the state of the IPv6 form (its useState cells)
  copyTimers,            \* pending setTimeout(() => setCopied(''), 2000)
  exportTimers,          \* pending setTimeout(() => setExportClicked(false), 1000)
  download               \* the file the last step handed to downloadCSV

pageVars ==
  <<mode, SubnetCalculator, IPv6SubnetCalculator, copyTimers, exportTimers,
    download>>

allVars == <<vars, pageVars>>

\* null for the IPv4 form's results (a SubnetResults object has the same
\* fields and null |-> FALSE).  totalHosts is a number kept as two 16-bit
\* limbs, hi * 65536 + lo.
NullSubnetResults ==
  [null |-> TRUE, networkAddress |-> <<>>, broadcastAddress |-> <<>>,
   firstHostIP |-> <<>>, lastHostIP |-> <<>>,
   totalHosts |-> [hi |-> 0, lo |-> 0], maskBits |-> 0, ipClass |-> <<>>,
   wildcardMask |-> <<>>]

\* error === null in either form (no handler sets the empty string).
NoError == ""

\* No file: downloadCSV was not called by the last step.
NoFile == [name |-> "", data |-> <<>>]

\* useState initial values of SubnetCalculator (the showAllHosts cell, which
\* only folds the rendered host list, is left out).
MountedSubnetCalculator ==
  [ipAddress |-> <<>>, subnetMask |-> <<>>, results |-> NullSubnetResults,
   error |-> NoError, ipClass |-> <<>>, copied |-> "", hostAddresses |-> <<>>,
   exportClicked |-> FALSE]

\* useState initial values of IPv6SubnetCalculator.
MountedIPv6SubnetCalculator ==
  [ipAddress |-> <<>>, prefixLength |-> <<>>, results |-> Null,
   error |-> NoError, copied |-> "", exportClicked |-> FALSE]

\* The page as App first renders it: mode 'ipv4', the IPv4 form mounted.  The
\* form that is not mounted is kept at its initial state.
PageInit ==
  /\ mode = "ipv4"
  /\ SubnetCalculator = MountedSubnetCalculator
  /\ IPv6SubnetCalculator = MountedIPv6SubnetCalculator
  /\ copyTimers = 0
  /\ exportTimers = 0
  /\ download = NoFile

Init ==
  /\ call = "none"
  /\ address \in AddressTexts
  /\ prefixLength = 0
  /\ completion = "pending"
  /\ valid = FALSE
  /\ expanded = <<>>
  /\ results = Null
  /\ locals = NoLocals
  /\ PageInit

IsValidCall ==
  /\ call = "none"
  /\ call' = "isValidIPv6Address"
  /\ valid' = isValidIPv6Address(address)
  /\ completion' = "return"
  /\ UNCHANGED <<address, prefixLength, expanded, results, locals>>
  /\ UNCHANGED pageVars

ExpandCall ==
  /\ call = "none"
  /\ call' = "expandIPv6Address"
  /\ completion' = expandIPv6Address(address).completion
  /\ expanded' = expandIPv6Address(address).value
  /\ UNCHANGED <<address, prefixLength, valid, results, locals>>
  /\ UNCHANGED pageVars

CalculateCall ==
  /\ call = "none"
  /\ call' = "calculateIPv6Subnet"
  /\ \E p \in PrefixLengths :
       /\ <<address, p>> \in CalculateInputs
       /\ prefixLength' = p
       /\ locals' = calculateLocals(address, p)
       /\ results' = ResultOf(calculateLocals(address, p))
  /\ completion' = "return"
  /\ UNCHANGED <<address, valid, expanded>>
  /\ UNCHANGED pageVars

Next == IsValidCall \/ ExpandCall \/ CalculateCall

Spec == Init /\ [][Next]_allVars

(***************************************************************************)
(* Reference notions the claims are stated with (independent of the        *)
(* engine's string manipulation)                                           *)
(***************************************************************************)

Calculated == call = "calculateIPv6Subnet"
InRange(p) == p >= 0 /\ p <= AddressBits

\* The value of a group written as hexadecimal digits ("" counts as 0).
HexValue(group) == ReadDigits(group, 16, 1, 0)

ValuesOf(groups) == [i \in 1..Len(groups) |-> ParseInt(groups[i], 16)]

\* The 8 group values an address text denotes: the text is trimmed as the
\* validator trims it, the groups elided by "::" are zero.
RefGroups(text) ==
  LET t == Trim(text)
      parts == Split(t, DoubleColon)
      before == GroupsOfPart(parts, 1)
      after == GroupsOfPart(parts, 2)
      full == before \o [i \in 1..(GroupCount - Len(before) - Len(after)) |-> <<>>] \o after
  IN [i \in 1..Len(full) |-> HexValue(full[i])]

RECURSIVE Pow2(_)
Pow2(n) == IF n = 0 THEN 1 ELSE 2 * Pow2(n - 1)

\* Of the 16 bits of group i (1-based), how many lie within the first p bits.
KeptBits(i, p) ==
  LET k == p - GroupBits * (i - 1) IN
  IF k < 0 THEN 0 ELSE IF k > GroupBits THEN GroupBits ELSE k

\* First p bits of the address, then zero bits / one bits, group by group.
RefNetwork(values, p) ==
  [i \in 1..Len(values) |-> values[i] - (values[i] % Pow2(GroupBits - KeptBits(i, p)))]

RefLast(values, p) ==
  [i \in 1..Len(values) |->
    values[i] - (values[i] % Pow2(GroupBits - KeptBits(i, p)))
      + Pow2(GroupBits - KeptBits(i, p)) - 1]

\* The zero runs of a list of group values, as <<first, last>> positions.
ZeroRuns(values) ==
  {r \in (1..Len(values)) \X (1..Len(values)) :
     /\ r[1] <= r[2]
     /\ \A k \in r[1]..r[2] : values[k] = 0
     /\ (r[1] = 1 \/ values[r[1] - 1] # 0)
     /\ (r[2] = Len(values) \/ values[r[2] + 1] # 0)}

RunLength(r) == r[2] - r[1] + 1

LongestRuns(values) ==
  {r \in ZeroRuns(values) : \A q \in ZeroRuns(values) : RunLength(q) <= RunLength(r)}

LeftmostLongest(values) ==
  CHOOSE r \in LongestRuns(values) : \A q \in LongestRuns(values) : r[1] <= q[1]

HexTexts(values) == [i \in 1..Len(values) |-> NumToString(values[i], 16)]

\* The canonical compressed text of 8 group values.
Canonical(values) ==
  IF \E r \in ZeroRuns(values) : RunLength(r) >= 2
  THEN LET r == LeftmostLongest(values) IN
       Join(HexTexts(SubSeq(values, 1, r[1] - 1)), Colon) \o DoubleColon
         \o Join(HexTexts(SubSeq(values, r[2] + 1, Len(values))), Colon)
  ELSE Join(HexTexts(values), Colon)

LowerHex == {DigitChar[i] : i \in 1..16}

\* Groups as the conversion back to hex writes them: 4 lower-case hex digits.
WellFormedGroups(groups) ==
  \A i \in 1..Len(groups) :
    Len(groups[i]) = GroupDigits /\ \A k \in 1..GroupDigits : groups[i][k] \in LowerHex

\* The decimal text of n in 0..999.
DecimalText(n) ==
  LET h == n \div 100
      t == (n \div 10) % 10
      u == n % 10
  IN (IF h > 0 THEN <<DigitChar[h + 1]>> ELSE <<>>)
     \o (IF h > 0 \/ t > 0 THEN <<DigitChar[t + 1]>> ELSE <<>>)
     \o <<DigitChar[u + 1]>>

(***************************************************************************)
(* Claims                                                                  *)
(***************************************************************************)

ValidCalculation ==
  Calculated /\ isValidIPv6Address(address) /\ InRange(prefixLength)

Text2001db8 == Join(<<G2001, Gdb8>>, Colon) \o DoubleColon

\* C1: for every valid address and prefix length in 0..128 the networkAddress
\* and lastAddress texts are the canonical compressed form of their 8 groups
\* (the longest zero run of length >= 2 written "::" wherever it lies, every
\* other group without leading zeros); calculateIPv6Subnet("2001:db8::", 64)
\* has networkAddress "2001:db8::".
C1_CanonicalTexts ==
  ValidCalculation =>
    /\ ~results.null
    /\ results.networkAddress = Canonical(ValuesOf(locals.networkAddress))
    /\ results.lastAddress = Canonical(ValuesOf(locals.lastAddress))
    /\ (address = Text2001db8 /\ prefixLength = 64
          => results.networkAddress = Text2001db8)

\* C2: for every accepted address text and prefix length p in 0..128 the 8
\* groups computed for the network address are the first p bits of the
\* address's value followed by zero bits, those of the last address the same
\* p bits followed by one bits.
C2_MaskedGroups ==
  ValidCalculation =>
    /\ locals.reached
    /\ ValuesOf(locals.networkAddress) = RefNetwork(RefGroups(address), prefixLength)
    /\ ValuesOf(locals.lastAddress) = RefLast(RefGroups(address), prefixLength)

\* C3: calculateIPv6Subnet returns null for every text isValidIPv6Address
\* rejects, whatever the prefix length in 0..128.
C3_NullOnInvalidAddress ==
  Calculated /\ ~isValidIPv6Address(address) /\ InRange(prefixLength)
    => results.null

\* C4: calculateIPv6Subnet returns no result for every prefix length outside
\* 0..128, above 128 or negative, and any valid address.
C4_NullOutsideRange ==
  Calculated /\ isValidIPv6Address(address) /\ ~InRange(prefixLength)
    => results.null

TextExpandExample == Text2001db8 \o G1

ExpandedExample ==
  Join(<<G2001, <<"0">> \o Gdb8, Zeros4, Zeros4, Zeros4, Zeros4, Zeros4,
         <<"0", "0", "0", "1">>>>, Colon)

\* C5: for every accepted text expandIPv6Address returns exactly 8 groups
\* joined by colons, each of exactly 4 lower-case hexadecimal digits, the
\* elided groups being 0000; expand("2001:db8::1") is
\* "2001:0db8:0000:0000:0000:0000:0000:0001".
C5_ExpandFullGroups ==
  call = "expandIPv6Address" /\ isValidIPv6Address(address) =>
    /\ completion = "return"
    /\ Len(Split(expanded, Colon)) = GroupCount
    /\ WellFormedGroups(Split(expanded, Colon))
    /\ ValuesOf(Split(expanded, Colon)) = RefGroups(address)
    /\ (address = TextExpandExample => expanded = ExpandedExample)

\* C6: expandIPv6Address returns "" for every text isValidIPv6Address rejects,
\* and does so by returning, never by throwing.
C6_ExpandEmptyOnInvalid ==
  call = "expandIPv6Address" /\ ~isValidIPv6Address(address) =>
    completion = "return" /\ expanded = <<>>

\* The group values of the text expandIPv6Address returns for t (no groups
\* when it returns "" or throws).
ExpandedValues(t) ==
  LET e == expandIPv6Address(t) IN
  IF e.completion = "return" /\ e.value # <<>>
  THEN ValuesOf(Split(e.value, Colon)) ELSE <<>>

\* C7: the text round trip keeps the value: for every valid address a,
\* expanding the networkAddress text of calculateIPv6Subnet(a, 128) gives the
\* same 8 groups as expanding a; and for every prefix, expanding the
\* networkAddress text (the 'Expanded Network Address' card) gives the 8
\* groups of the network address.
C7_RoundTrip ==
  ValidCalculation =>
    /\ ~results.null
    /\ ExpandedValues(results.networkAddress) = ValuesOf(locals.networkAddress)
    /\ (prefixLength = AddressBits
          => ExpandedValues(results.networkAddress) = ExpandedValues(address))

\* The rule of C8, read off a text.
RefValid(text) ==
  LET t == Trim(text)
      tokens == MatchCount(t, DoubleColon)
      parts == Split(t, DoubleColon)
      around == GroupsOfPart(parts, 1) \o GroupsOfPart(parts, 2)
      groups == IF tokens = 0 THEN Split(t, Colon) ELSE around
  IN /\ tokens <= 1
     /\ (tokens = 0 => Len(groups) = 8)
     /\ (tokens = 1 => Len(groups) <= 7)
     /\ \A i \in 1..Len(groups) : IsHex1to4(groups[i])

\* C8: isValidIPv6Address(text) is true exactly when the trimmed text has at
\* most one "::", has exactly 8 groups without it or at most 7 groups around
\* it, and every group is 1 to 4 hexadecimal digits.
C8_ValidExactly ==
  call = "isValidIPv6Address" => (valid = RefValid(address))

\* C9: for every valid address and prefix length p in 0..128, totalAddresses
\* is "1" when p = 128 and "2^" followed by the decimal 128 - p otherwise.
C9_TotalAddresses ==
  ValidCalculation =>
    /\ ~results.null
    /\ results.totalAddresses =
         IF prefixLength = 128 THEN <<"1">>
         ELSE <<"2", "^">> \o DecimalText(128 - prefixLength)

C9_Witness ==
  /\ ValidCalculation
  /\ prefixLength = 127
  /\ results.totalAddresses = <<"2", "^", "1">>

\* Several zero runs share the maximal length, which is at least 2.
HasTie(values) ==
  /\ Cardinality(LongestRuns(values)) >= 2
  /\ \E r \in LongestRuns(values) : RunLength(r) >= 2

\* The tokens of the text in which the leftmost longest run is replaced by
\* one empty token and every other group, zero or not, is written out.
TieTokens(values) ==
  LET r == LeftmostLongest(values) IN
  HexTexts(SubSeq(values, 1, r[1] - 1)) \o <<<<>>>>
    \o HexTexts(SubSeq(values, r[2] + 1, Len(values)))

TieRespected(groups, text) ==
  WellFormedGroups(groups) /\ HasTie(ValuesOf(groups))
    => Split(text, Colon) = TieTokens(ValuesOf(groups))

\* C10: when the 8 groups hold several zero runs of the same maximal length
\* (>= 2), compression replaces the leftmost of them and writes every other
\* zero group as "0".
C10_LeftmostTie ==
  Calculated /\ locals.reached =>
    /\ TieRespected(locals.networkAddress, results.networkAddress)
    /\ TieRespected(locals.lastAddress, results.lastAddress)

C10_Witness ==
  /\ Calculated
  /\ locals.reached
  /\ WellFormedGroups(locals.networkAddress)
  /\ HasTie(ValuesOf(locals.networkAddress))
  /\ RefValid(address)
  /\ prefixLength = AddressBits
  /\ LeftmostLongest(ValuesOf(locals.networkAddress))[1] > 1
  /\ \E i \in 1..Len(Split(results.networkAddress, Colon)) :
       Split(results.networkAddress, Colon)[i] = <<"0">>

(***************************************************************************)
(* utils/subnet, the IPv4 engine the IPv4 form imports.  Its file is not   *)
(* among the sources, so its functions are written from spec.md 3 and      *)
(* 4.1 - 4.5.  An address is handled as its four octets.                   *)
(***************************************************************************)

Dot == <<".">>

\* One decimal segment of a dotted quad: 1 to 3 digits, value 0..255.
IsOctetText(s) ==
  /\ Len(s) >= 1
  /\ Len(s) <= 3
  /\ \A i \in 1..Len(s) : IsDigit(s[i], 10)
  /\ ParseInt(s, 10) <= 255

\* spec.md 4.1 parse accepts: exactly four decimal segments, single outer trim.
isValidIPAddress(ip) ==
  LET parts == Split(Trim(ip), Dot) IN
  /\ Len(parts) = 4
  /\ \A i \in 1..4 : IsOctetText(parts[i])

\* spec.md 4.1 parse of an accepted text: the four octets.
ParseIPv4(ip) ==
  LET parts == Split(Trim(ip), Dot) IN [i \in 1..4 |-> ParseInt(parts[i], 10)]

\* spec.md 4.1 format: four decimal octets joined by ".".
FormatIPv4(octets) == Join([i \in 1..4 |-> NumToString(octets[i], 10)], Dot)

\* The 32 bits of an address, most significant first.
BitsOf(octets) ==
  [i \in 1..32 |-> (octets[((i - 1) \div 8) + 1] \div (2 ^ (7 - ((i - 1) % 8)))) % 2]

\* The four octets of 32 bits.
RECURSIVE BitsValue(_, _, _)
BitsValue(bits, from, to) ==
  IF from > to THEN 0
  ELSE bits[from] * (2 ^ (to - from)) + BitsValue(bits, from + 1, to)

OctetsOf(bits) == [k \in 1..4 |-> BitsValue(bits, 8 * k - 7, 8 * k)]

\* spec.md 3: a contiguous run of one-bits from the most significant bit,
\* followed only by zero-bits.
Contiguous(bits) == \A i \in 1..31 : bits[i] = 0 => bits[i + 1] = 0

\* spec.md 4.2 maskToCidr counts the leading one-bits.
RECURSIVE LeadingOnes(_, _)
LeadingOnes(bits, i) ==
  IF i > 32 \/ bits[i] = 0 THEN 0 ELSE 1 + LeadingOnes(bits, i + 1)

PopCount(bits) == Cardinality({i \in 1..32 : bits[i] = 1})

\* spec.md 4.2 parseMask accepts: the dotted-quad form with contiguous bits.
isValidSubnetMask(mask) ==
  isValidIPAddress(mask) /\ Contiguous(BitsOf(ParseIPv4(mask)))

\* spec.md 4.2 cidrToMask: the top n bits set, as dotted text; the failure
\* value (no text) for n outside 0..32.
convertCIDRToMask(n) ==
  IF n < 0 \/ n > 32 THEN <<>>
  ELSE FormatIPv4(OctetsOf([i \in 1..32 |-> IF i <= n THEN 1 ELSE 0]))

\* spec.md 4.2 maskToCidr of a dotted mask text.
convertMaskToCIDR(mask) == LeadingOnes(BitsOf(ParseIPv4(mask)), 1)

\* spec.md 4.3 classify, from the first octet.
determineIPClass(ip) ==
  LET first == ParseIPv4(ip)[1] IN
  IF first < 128 THEN <<"A">>
  ELSE IF first < 192 THEN <<"B">>
  ELSE IF first < 224 THEN <<"C">>
  ELSE IF first < 240 THEN <<"D">> ELSE <<"E">>

\* The address k places after (k < 0: before) the address octets, within 32
\* bits.
AddToAddress(octets, k) ==
  LET d4 == octets[4] + k
      d3 == octets[3] + (d4 \div 256)
      d2 == octets[2] + (d3 \div 256)
      d1 == octets[1] + (d2 \div 256)
  IN  <<d1 % 256, d2 % 256, d3 % 256, d4 % 256>>

\* Numbers above 2^31: two limbs, hi * 65536 + lo with lo < 65536.
Wide(hi, lo) == [hi |-> hi, lo |-> lo]

\* 2^k for k in 0..32.
WidePow2(k) == IF k < 16 THEN Wide(0, 2 ^ k) ELSE Wide(2 ^ (k - 16), 0)

\* w - d for a small d <= w.
WideMinus(w, d) ==
  IF w.lo >= d THEN Wide(w.hi, w.lo - d) ELSE Wide(w.hi - 1, w.lo + 65536 - d)

\* w <= n and w = n for a number n below 65536.
WideLeq(w, n) == w.hi = 0 /\ w.lo <= n

WideIs(w, n) == w.hi = 0 /\ w.lo = n

\* Number.prototype.toString() of a wide number: its decimal digits, by long
\* division by 10.
RECURSIVE WideToString(_)
WideToString(w) ==
  LET q1  == w.hi \div 10
      r1  == w.hi % 10
      mid == r1 * 65536 + w.lo
      q   == Wide(q1 + ((mid \div 10) \div 65536), (mid \div 10) % 65536)
      dig == DigitChar[(mid % 10) + 1]
  IN  IF q.hi = 0 /\ q.lo = 0 THEN <<dig>> ELSE Append(WideToString(q), dig)

\* spec.md 4.4 calculate, on the two texts the form passes.  For a valid
\* address and mask it always yields a result.
calculateSubnet(ip, mask) ==
  LET addr      == BitsOf(ParseIPv4(ip))
      maskOf    == BitsOf(ParseIPv4(mask))
      network   == OctetsOf([i \in 1..32 |-> addr[i] * maskOf[i]])
      wildcard  == [i \in 1..32 |-> 1 - maskOf[i]]
      broadcast == OctetsOf([i \in 1..32 |->
                      IF addr[i] * maskOf[i] = 1 \/ wildcard[i] = 1 THEN 1 ELSE 0])
      maskBits  == PopCount(maskOf)
  IN  [null             |-> FALSE,
       networkAddress   |-> FormatIPv4(network),
       broadcastAddress |-> FormatIPv4(broadcast),
       firstHostIP      |-> IF maskBits <= 30
                            THEN FormatIPv4(AddToAddress(network, 1))
                            ELSE FormatIPv4(network),
       lastHostIP       |-> IF maskBits <= 30
                            THEN FormatIPv4(AddToAddress(broadcast, 0 - 1))
                            ELSE FormatIPv4(broadcast),
       totalHosts       |-> IF maskBits <= 30
                            THEN WideMinus(WidePow2(32 - maskBits), 2)
                            ELSE IF maskBits = 31 THEN Wide(0, 2) ELSE Wide(0, 1),
       maskBits         |-> maskBits,
       ipClass          |-> determineIPClass(ip),
       wildcardMask     |-> FormatIPv4(OctetsOf(wildcard))]

\* How many places the address last lies after the address first (the form
\* asks only for ranges of at most 1024 addresses).
Distance(first, last) ==
  (((last[1] - first[1]) * 256 + (last[2] - first[2])) * 256
     + (last[3] - first[3])) * 256 + (last[4] - first[4])

\* spec.md 4.5 enumerate, as the form calls it (no cap argument: the caller
\* applies the cap): every address from first to last inclusive, ascending.
getAllHostAddresses(firstIP, lastIP) ==
  LET first == ParseIPv4(firstIP)
      last  == ParseIPv4(lastIP)
  IN  [i \in 1..(Distance(first, last) + 1) |->
         FormatIPv4(AddToAddress(first, i - 1))]

(***************************************************************************)
(* src/src/utils/csvExport.ts                                              *)
(***************************************************************************)

Comma == <<",">>

NewLine == <<"\n">>

Slash == <<"/">>

\* The row labels, as character sequences.
LabelProperty == <<"P", "r", "o", "p", "e", "r", "t", "y">>

LabelValue == <<"V", "a", "l", "u", "e">>

LabelNetworkAddress ==
  <<"N", "e", "t", "w", "o", "r", "k",
    " ", "A", "d", "d", "r", "e", "s", "s">>

LabelBroadcastAddress ==
  <<"B", "r", "o", "a", "d", "c", "a", "s",
    "t", " ", "A", "d", "d", "r", "e", "s", "s">>

LabelFirstHostIP ==
  <<"F", "i", "r", "s", "t", " ",
    "H", "o", "s", "t", " ", "I", "P">>

LabelLastHostIP ==
  <<"L", "a", "s", "t", " ", "H",
    "o", "s", "t", " ", "I", "P">>

LabelTotalHosts == <<"T", "o", "t", "a", "l", " ", "H", "o", "s", "t", "s">>

LabelMaskBits ==
  <<"M", "a", "s", "k", " ", "B", "i", "t",
    "s", " ", "(", "C", "I", "D", "R", ")">>

LabelIPClass == <<"I", "P", " ", "C", "l", "a", "s", "s">>

LabelWildcardMask ==
  <<"W", "i", "l", "d", "c", "a",
    "r", "d", " ", "M", "a", "s", "k">>

LabelLastAddress ==
  <<"L", "a", "s", "t", " ", "A",
    "d", "d", "r", "e", "s", "s">>

LabelTotalAddresses ==
  <<"T", "o", "t", "a", "l", " ", "A",
    "d", "d", "r", "e", "s", "s", "e", "s">>

\* rows.map(row => row.join(',')).join('\n')
JoinRows(rows) == Join([i \in 1..Len(rows) |-> Join(rows[i], Comma)], NewLine)

\* Variant of generateCSV with the Mask Bits row before the Total Hosts row.
generateCSVMaskBitsFirst(r) ==
  JoinRows(<<
    <<LabelProperty, LabelValue>>,
    <<LabelNetworkAddress, r.networkAddress>>,
    <<LabelBroadcastAddress, r.broadcastAddress>>,
    <<LabelFirstHostIP, r.firstHostIP>>,
    <<LabelLastHostIP, r.lastHostIP>>,
    <<LabelMaskBits, Slash \o NumToString(r.maskBits, 10)>>,
    <<LabelTotalHosts, WideToString(r.totalHosts)>>,
    <<LabelIPClass, r.ipClass>>,
    <<LabelWildcardMask, r.wildcardMask>> >>)

generateCSV(r) ==
  JoinRows(<<
    <<LabelProperty, LabelValue>>,
    <<LabelNetworkAddress, r.networkAddress>>,
    <<LabelBroadcastAddress, r.broadcastAddress>>,
    <<LabelFirstHostIP, r.firstHostIP>>,
    <<LabelLastHostIP, r.lastHostIP>>,
    <<LabelTotalHosts, WideToString(r.totalHosts)>>,
    <<LabelMaskBits, Slash \o NumToString(r.maskBits, 10)>>,
    <<LabelIPClass, r.ipClass>>,
    <<LabelWildcardMask, r.wildcardMask>> >>)

generateIPv6CSV(r) ==
  JoinRows(<<
    <<LabelProperty, LabelValue>>,
    <<LabelNetworkAddress, r.networkAddress>>,
    <<LabelLastAddress, r.lastAddress>>,
    <<LabelTotalAddresses, r.totalAddresses>> >>)

(***************************************************************************)
(* src/src/components/IPv6SubnetCalculator.tsx                             *)
(***************************************************************************)

\* parseInt(s, 10) of a field text, sign included: whether it is NaN, and its
\* value otherwise.
ParseDecimal(s) ==
  LET t      == TrimStart(s)
      signed == t # <<>> /\ t[1] \in {"+", "-"}
      body   == IF signed THEN Tail(t) ELSE t
  IN  IF body = <<>> \/ ~IsDigit(body[1], 10)
      THEN [nan |-> TRUE, value |-> 0]
      ELSE [nan   |-> FALSE,
            value |-> IF signed /\ t[1] = "-"
                      THEN 0 - ReadDigits(body, 10, 1, 0)
                      ELSE ReadDigits(body, 10, 1, 0)]

\* String.prototype.substring(1).
SubstringFrom1(s) == SubSeq(s, 2, Len(s))

\* Variant of Rejected6 that reports the error and leaves the results shown.
Rejected6KeepingResults(s, message) == [s EXCEPT !.error = message]

\* setError(message); setResults(null); return
Rejected6(s, message) == [s EXCEPT !.error = message, !.results = Null]

\* Variant of Emptied6 that clears the error only.
Emptied6KeepingResults(s) == [s EXCEPT !.error = NoError]

\* setResults(null); setError(null), a field being empty
Emptied6(s) == [s EXCEPT !.results = Null, !.error = NoError]

\* The useEffect on [ipAddress, prefixLength], run on the state s the edit
\* left.
CalculationEffect6(s) ==
  IF s.ipAddress # <<>> /\ s.prefixLength # <<>>
  THEN IF ~isValidIPv6Address(s.ipAddress)
       THEN Rejected6(s, "Invalid IPv6 address format")
       ELSE LET prefix == ParseDecimal(s.prefixLength) IN
            IF prefix.nan \/ prefix.value < 0 \/ prefix.value > 128
            THEN Rejected6(s, "Invalid prefix length (must be between 0 and 128)")
            ELSE LET result == calculateIPv6Subnet(s.ipAddress, prefix.value) IN
                 IF ~result.null
                 THEN [s EXCEPT !.error = NoError, !.results = result]
                 ELSE [s EXCEPT !.error = "Error calculating subnet"]
  ELSE Emptied6(s)

(***************************************************************************)
(* src/unnamed/part_000, the IPv4 form SubnetCalculator                    *)
(***************************************************************************)

\* The useEffect on [ipAddress]: the class badge.
ClassEffect(s) ==
  [s EXCEPT !.ipClass =
     IF s.ipAddress # <<>> /\ isValidIPAddress(s.ipAddress)
     THEN determineIPClass(s.ipAddress) ELSE <<>>]

\* Variant of HostAddressesFor with a limit of 256 hosts.
HostAddressesForUpTo256(result) ==
  IF WideLeq(result.totalHosts, 256)
  THEN getAllHostAddresses(result.firstHostIP, result.lastHostIP)
  ELSE <<>>

\* The host list set beside a result: all hosts up to 1024 of them, else none.
HostAddressesFor(result) ==
  IF WideLeq(result.totalHosts, 1024)
  THEN getAllHostAddresses(result.firstHostIP, result.lastHostIP)
  ELSE <<>>

\* setError(message); setResults(null); return
Rejected4(s, message) == [s EXCEPT !.error = message, !.results = NullSubnetResults]

\* Variant of Emptied4 that leaves the host list.
Emptied4KeepingHosts(s) ==
  [s EXCEPT !.results = NullSubnetResults, !.error = NoError]

\* setResults(null); setError(null); setHostAddresses([]), a field being empty
Emptied4(s) ==
  [s EXCEPT !.results = NullSubnetResults, !.error = NoError,
            !.hostAddresses = <<>>]

\* The useEffect on [ipAddress, subnetMask], run on the state s the edit left.
\* yields tells whether calculateSubnet returns a result here (it always does
\* by spec.md 4.4; the effect also has a branch for null).
CalculationEffect4(s, yields) ==
  IF s.ipAddress # <<>> /\ s.subnetMask # <<>>
  THEN IF ~isValidIPAddress(s.ipAddress)
       THEN Rejected4(s, "Invalid IP address format")
       ELSE IF ~isValidSubnetMask(s.subnetMask)
       THEN Rejected4(s, "Invalid subnet mask format")
       ELSE LET result == IF yields THEN calculateSubnet(s.ipAddress, s.subnetMask)
                          ELSE NullSubnetResults
            IN  IF ~result.null
                THEN [s EXCEPT !.error = NoError, !.results = result,
                               !.hostAddresses = HostAddressesFor(result)]
                ELSE [s EXCEPT !.error = "Error calculating subnet"]
  ELSE Emptied4(s)

\* Variant of MaskOfOption that parses the whole option value, slash included.
MaskOfWholeOption(value) == convertCIDRToMask(ParseInt(value, 10))

\* handleCIDRChange's new mask text for the chosen option value ("/n"; the
\* placeholder option's empty value changes nothing).
MaskOfOption(value) == convertCIDRToMask(ParseInt(SubstringFrom1(value), 10))

(***************************************************************************)
(* The page: what the user types and picks                                 *)
(***************************************************************************)

\* Pending timers of one kind (clicks stop while this many are pending).
MaxPendingTimers == 2

\* Texts typed into the IPv4 address field (the empty text is typed too).
IPv4Texts ==
  {<<"1", "9", "2", ".", "1", "6", "8", ".", "1", ".", "1", "0">>,
   <<" ", "1", "0", ".", "0", ".", "0", ".", "5", " ">>,
   <<"2", "5", "6", ".", "1", ".", "1", ".", "1">>}

\* Texts typed into the subnet mask field.
MaskTexts ==
  {<<"2", "5", "5", ".", "2", "5", "5", ".", "2", "5", "2", ".", "0">>,
   <<"2", "5", "5", ".", "0", ".", "2", "5", "5", ".", "0">>,
   <<"a", "b", "c">>}

\* The values of the CIDR dropdown's options: the placeholder and /0 .. /32.
CIDROptions == {<<>>} \cup {Slash \o NumToString(n, 10) : n \in 0..32}

\* Some of them: the placeholder, both ends, the lengths around the host
\* list limit, and those with the smallest host ranges.
SomeCIDROptions ==
  {<<>>} \cup {Slash \o NumToString(n, 10) : n \in {0, 21, 22, 23, 24, 30, 31, 32}}

\* Texts typed into the IPv6 address field.
IPv6Texts ==
  {<<"2", "0", "0", "1", ":", "d", "b", "8", ":", ":", "1">>,
   <<":", ":">>,
   <<" ", "1", ":", ":">>,
   <<"1", ":", "2", ":", "3", ":", "4", ":", "5", ":", "6", ":", "7", ":">>,
   <<"f", "f", "f", "f", ":", "f", "f", "f", "f", ":", "f", "f", "f", "f", ":", "f", "f", "f", "f", ":", "f", "f", "f", "f", ":", "f", "f", "f", "f", ":", "f", "f", "f", "f", ":", "f", "f", "f", "f">>,
   <<"g", ":", ":">>,
   <<"1", ":", ":", "1", ":", ":", "1">>,
   <<"1", ":", "2", ":", "3">>}

\* Texts typed into the prefix length field.
PrefixTexts ==
  {<<"0">>,
   <<"6", "4">>,
   <<"1", "2", "8">>,
   <<"1", "2", "9">>,
   <<"-", "1">>,
   <<"+", "5">>,
   <<"6", "4", "a", "b", "c">>,
   <<" ", "7">>,
   <<"a", "b", "c">>,
   <<"/", "6", "4">>}

\* The values of the prefix dropdown's options chosen: the placeholder and
\* some of /0 .. /128.
PrefixOptions == {<<>>} \cup {Slash \o NumToString(n, 10) : n \in {0, 1, 48, 127, 128}}

\* The labels the copy buttons of each form pass to copyToClipboard.
CopyLabels4 == {"network", "broadcast", "first", "last", "range", "wildcard"}

CopyLabels6 == {"network", "last", "expanded"}

\* A few of the texts above, for the runs that are about clicks and timers.
\* A valid and an invalid IPv4 address.
FewIPv4Texts ==
  {<<"1", "9", "2", ".", "1", "6", "8", ".", "1", ".", "1", "0">>,
   <<"2", "5", "6", ".", "1", ".", "1", ".", "1">>}

\* A valid and an invalid mask.
FewMaskTexts ==
  {<<"2", "5", "5", ".", "2", "5", "5", ".", "2", "5", "5", ".", "2", "5", "2">>,
   <<"a", "b", "c">>}

\* A valid and an invalid IPv6 address.
FewIPv6Texts ==
  {<<"2", "0", "0", "1", ":", "d", "b", "8", ":", ":", "1">>,
   <<"g", ":", ":">>}

\* A valid and an invalid prefix length.
FewPrefixTexts ==
  {<<"6", "4">>,
   <<"1", "2", "9">>}

(***************************************************************************)
(* The page as a state machine: one action per handler, each with the      *)
(* effects its state change triggers.  download shows the file of the      *)
(* step just taken only.                                                   *)
(***************************************************************************)

\* No engine call is on record while the page runs.
EngineIdle ==
  /\ call = "none"
  /\ address = <<>>
  /\ prefixLength = 0
  /\ completion = "pending"
  /\ valid = FALSE
  /\ expanded = <<>>
  /\ results = Null
  /\ locals = NoLocals

\* onChange of the IPv4 address field: setIpAddress, then both effects (an
\* unchanged text triggers no effect, here and below).
ChangeIpAddress4(text, yields) ==
  /\ mode = "ipv4"
  /\ SubnetCalculator' =
       IF text # SubnetCalculator.ipAddress
       THEN CalculationEffect4(
              ClassEffect([SubnetCalculator EXCEPT !.ipAddress = text]), yields)
       ELSE SubnetCalculator
  /\ download' = NoFile
  /\ UNCHANGED <<mode, IPv6SubnetCalculator, copyTimers, exportTimers, vars>>

\* onChange of the subnet mask field: setSubnetMask, then the effect.
ChangeSubnetMask(text, yields) ==
  /\ mode = "ipv4"
  /\ SubnetCalculator' =
       IF text # SubnetCalculator.subnetMask
       THEN CalculationEffect4([SubnetCalculator EXCEPT !.subnetMask = text], yields)
       ELSE SubnetCalculator
  /\ download' = NoFile
  /\ UNCHANGED <<mode, IPv6SubnetCalculator, copyTimers, exportTimers, vars>>

\* onChange of the CIDR dropdown.
handleCIDRChange(value, yields) ==
  /\ mode = "ipv4"
  /\ SubnetCalculator' =
       IF value # <<>> /\ MaskOfOption(value) # SubnetCalculator.subnetMask
       THEN CalculationEffect4(
              [SubnetCalculator EXCEPT !.subnetMask = MaskOfOption(value)], yields)
       ELSE SubnetCalculator
  /\ download' = NoFile
  /\ UNCHANGED <<mode, IPv6SubnetCalculator, copyTimers, exportTimers, vars>>

\* A copy button of the IPv4 form: results && copyToClipboard(text, label).
copyToClipboard4(label) ==
  /\ mode = "ipv4"
  /\ ~SubnetCalculator.results.null
  /\ copyTimers < MaxPendingTimers
  /\ SubnetCalculator' = [SubnetCalculator EXCEPT !.copied = label]
  /\ copyTimers' = copyTimers + 1
  /\ download' = NoFile
  /\ UNCHANGED <<mode, IPv6SubnetCalculator, exportTimers, vars>>

\* The oldest pending setTimeout(() => setCopied(''), 2000) of the IPv4 form
\* fires (equal delays: the timers fire in the order they were started).
CopiedTimeout4 ==
  /\ mode = "ipv4"
  /\ copyTimers > 0
  /\ SubnetCalculator' = [SubnetCalculator EXCEPT !.copied = ""]
  /\ copyTimers' = copyTimers - 1
  /\ download' = NoFile
  /\ UNCHANGED <<mode, IPv6SubnetCalculator, exportTimers, vars>>

\* The Save as CSV button of the IPv4 form.
handleExportCSV4 ==
  /\ mode = "ipv4"
  /\ ~SubnetCalculator.results.null
  /\ exportTimers < MaxPendingTimers
  /\ SubnetCalculator' = [SubnetCalculator EXCEPT !.exportClicked = TRUE]
  /\ download' = [name |-> "subnet-calculation",
                  data |-> generateCSV(SubnetCalculator.results)]
  /\ exportTimers' = exportTimers + 1
  /\ UNCHANGED <<mode, IPv6SubnetCalculator, copyTimers, vars>>

\* A pending setTimeout(() => setExportClicked(false), 1000) fires.
ExportTimeout4 ==
  /\ mode = "ipv4"
  /\ exportTimers > 0
  /\ SubnetCalculator' = [SubnetCalculator EXCEPT !.exportClicked = FALSE]
  /\ exportTimers' = exportTimers - 1
  /\ download' = NoFile
  /\ UNCHANGED <<mode, IPv6SubnetCalculator, copyTimers, vars>>

\* onChange of the IPv6 address field: setIpAddress, then the effect.
ChangeIpAddress6(text) ==
  /\ mode = "ipv6"
  /\ IPv6SubnetCalculator' =
       IF text # IPv6SubnetCalculator.ipAddress
       THEN CalculationEffect6([IPv6SubnetCalculator EXCEPT !.ipAddress = text])
       ELSE IPv6SubnetCalculator
  /\ download' = NoFile
  /\ UNCHANGED <<mode, SubnetCalculator, copyTimers, exportTimers, vars>>

\* onChange of the prefix length field: setPrefixLength, then the effect.
ChangePrefixLength(text) ==
  /\ mode = "ipv6"
  /\ IPv6SubnetCalculator' =
       IF text # IPv6SubnetCalculator.prefixLength
       THEN CalculationEffect6([IPv6SubnetCalculator EXCEPT !.prefixLength = text])
       ELSE IPv6SubnetCalculator
  /\ download' = NoFile
  /\ UNCHANGED <<mode, SubnetCalculator, copyTimers, exportTimers, vars>>

\* onChange of the prefix dropdown: setPrefixLength(value.substring(1)).
SelectPrefix(value) == ChangePrefixLength(SubstringFrom1(value))

\* A copy button of the IPv6 form (it has a handler only while results show).
copyToClipboard6(label) ==
  /\ mode = "ipv6"
  /\ ~IPv6SubnetCalculator.results.null
  /\ copyTimers < MaxPendingTimers
  /\ IPv6SubnetCalculator' = [IPv6SubnetCalculator EXCEPT !.copied = label]
  /\ copyTimers' = copyTimers + 1
  /\ download' = NoFile
  /\ UNCHANGED <<mode, SubnetCalculator, exportTimers, vars>>

\* The oldest pending setTimeout(() => setCopied(''), 2000) of the IPv6 form
\* fires.
CopiedTimeout6 ==
  /\ mode = "ipv6"
  /\ copyTimers > 0
  /\ IPv6SubnetCalculator' = [IPv6SubnetCalculator EXCEPT !.copied = ""]
  /\ copyTimers' = copyTimers - 1
  /\ download' = NoFile
  /\ UNCHANGED <<mode, SubnetCalculator, exportTimers, vars>>

\* The Save as CSV button of the IPv6 form.
handleExportCSV6 ==
  /\ mode = "ipv6"
  /\ ~IPv6SubnetCalculator.results.null
  /\ exportTimers < MaxPendingTimers
  /\ IPv6SubnetCalculator' = [IPv6SubnetCalculator EXCEPT !.exportClicked = TRUE]
  /\ download' = [name |-> "ipv6-subnet-calculation",
                  data |-> generateIPv6CSV(IPv6SubnetCalculator.results)]
  /\ exportTimers' = exportTimers + 1
  /\ UNCHANGED <<mode, SubnetCalculator, copyTimers, vars>>

\* A pending setTimeout(() => setExportClicked(false), 1000) fires.
ExportTimeout6 ==
  /\ mode = "ipv6"
  /\ exportTimers > 0
  /\ IPv6SubnetCalculator' = [IPv6SubnetCalculator EXCEPT !.exportClicked = FALSE]
  /\ exportTimers' = exportTimers - 1
  /\ download' = NoFile
  /\ UNCHANGED <<mode, SubnetCalculator, copyTimers, vars>>

\* The IPv4 / IPv6 buttons of App: setMode(m) unmounts the form shown and
\* mounts the other one with its initial state.  The timers of the unmounted
\* form can no longer change anything shown and are dropped.
setMode(m) ==
  /\ m # mode
  /\ mode' = m
  /\ SubnetCalculator' = MountedSubnetCalculator
  /\ IPv6SubnetCalculator' = MountedIPv6SubnetCalculator
  /\ copyTimers' = 0
  /\ exportTimers' = 0
  /\ download' = NoFile
  /\ UNCHANGED vars

\* The page after App's first render, no engine call on record.
PageStart == EngineIdle /\ PageInit

\* Typing, picking and switching forms.
PageNext ==
  \/ \E text \in IPv4Texts \cup {<<>>} : ChangeIpAddress4(text, TRUE)
  \/ \E text \in MaskTexts \cup {<<>>} : ChangeSubnetMask(text, TRUE)
  \/ \E value \in SomeCIDROptions : handleCIDRChange(value, TRUE)
  \/ \E text \in IPv6Texts \cup {<<>>} : ChangeIpAddress6(text)
  \/ \E text \in PrefixTexts \cup {<<>>} : ChangePrefixLength(text)
  \/ \E value \in PrefixOptions : SelectPrefix(value)
  \/ \E m \in {"ipv4", "ipv6"} : setMode(m)

SpecPage == PageStart /\ [][PageNext]_allVars

\* The IPv4 form with every option of the CIDR dropdown.
CIDRNext ==
  \/ \E text \in FewIPv4Texts \cup {<<>>} : ChangeIpAddress4(text, TRUE)
  \/ \E text \in FewMaskTexts \cup {<<>>} : ChangeSubnetMask(text, TRUE)
  \/ \E value \in CIDROptions : handleCIDRChange(value, TRUE)

SpecCIDR == PageStart /\ [][CIDRNext]_allVars

\* Exporting: every IPv6 text and some IPv4 texts, the Save as CSV buttons
\* and their timers.
ExportNext ==
  \/ \E text \in FewIPv4Texts \cup {<<>>} : ChangeIpAddress4(text, TRUE)
  \/ \E text \in FewMaskTexts \cup {<<>>} : ChangeSubnetMask(text, TRUE)
  \/ \E value \in {Slash \o NumToString(n, 10) : n \in {0, 20, 31, 32}} :
       handleCIDRChange(value, TRUE)
  \/ handleExportCSV4
  \/ ExportTimeout4
  \/ \E text \in IPv6Texts \cup {<<>>} : ChangeIpAddress6(text)
  \/ \E text \in PrefixTexts \cup {<<>>} : ChangePrefixLength(text)
  \/ handleExportCSV6
  \/ ExportTimeout6
  \/ \E m \in {"ipv4", "ipv6"} : setMode(m)

SpecExport == PageStart /\ [][ExportNext]_allVars

\* Copying: a few texts, the copy buttons and their timers.
CopyNext ==
  \/ \E text \in FewIPv4Texts \cup {<<>>} : ChangeIpAddress4(text, TRUE)
  \/ \E text \in FewMaskTexts \cup {<<>>} : ChangeSubnetMask(text, TRUE)
  \/ \E label \in CopyLabels4 : copyToClipboard4(label)
  \/ CopiedTimeout4
  \/ \E text \in FewIPv6Texts \cup {<<>>} : ChangeIpAddress6(text)
  \/ \E text \in FewPrefixTexts \cup {<<>>} : ChangePrefixLength(text)
  \/ \E label \in CopyLabels6 : copyToClipboard6(label)
  \/ CopiedTimeout6
  \/ \E m \in {"ipv4", "ipv6"} : setMode(m)

SpecCopy == PageStart /\ [][CopyNext]_allVars

\* The IPv4 form with the outcome of calculateSubnet left open: the effect
\* tests its result for null, and the engine's file is not among the sources.
OpenNext ==
  \/ \E text \in IPv4Texts \cup {<<>>}, yields \in BOOLEAN :
       ChangeIpAddress4(text, yields)
  \/ \E text \in MaskTexts \cup {<<>>}, yields \in BOOLEAN :
       ChangeSubnetMask(text, yields)
  \/ \E value \in {Slash \o NumToString(n, 10) : n \in {0, 24, 30, 31, 32}},
        yields \in BOOLEAN :
       handleCIDRChange(value, yields)

SpecOpen == PageStart /\ [][OpenNext]_allVars

(***************************************************************************)
(* The claims about the page                                               *)
(***************************************************************************)

\* The IPv4 form shows a result (its last calculation succeeded).
Shows4 == mode = "ipv4" /\ ~SubnetCalculator.results.null

\* The IPv6 form shows a result.
Shows6 == mode = "ipv6" /\ ~IPv6SubnetCalculator.results.null

\* list is the complete ascending list of the addresses from first to last:
\* it starts at first, ends at last, and each entry is the canonical text of
\* the address one after the entry before it.
CompleteRange(list, first, last) ==
  /\ list # <<>>
  /\ list[1] = first
  /\ list[Len(list)] = last
  /\ \A i \in 1..Len(list) :
       isValidIPAddress(list[i]) /\ FormatIPv4(ParseIPv4(list[i])) = list[i]
  /\ \A i \in 1..(Len(list) - 1) :
       Distance(ParseIPv4(list[i]), ParseIPv4(list[i + 1])) = 1

\* C11: in the IPv4 form, whenever a result is shown the host list is empty
\* or the complete ascending list from firstHostIP to lastHostIP, never a
\* part of it; it is non-empty exactly when totalHosts <= 1024, and its
\* length is then totalHosts (2 for a /31, 1 for a /32).
C11_HostListComplete ==
  Shows4 =>
    LET r     == SubnetCalculator.results
        hosts == SubnetCalculator.hostAddresses
    IN  /\ (hosts # <<>>) <=> WideLeq(r.totalHosts, 1024)
        /\ hosts # <<>> =>
             /\ CompleteRange(hosts, r.firstHostIP, r.lastHostIP)
             /\ WideIs(r.totalHosts, Len(hosts))
        /\ r.maskBits = 31 => Len(hosts) = 2
        /\ r.maskBits = 32 => Len(hosts) = 1

\* A /31 is shown with its two hosts.
C11_Witness ==
  /\ Shows4
  /\ SubnetCalculator.results.maskBits = 31
  /\ Len(SubnetCalculator.hostAddresses) = 2
  /\ SubnetCalculator.hostAddresses[1] # SubnetCalculator.hostAddresses[2]

\* The dotted mask of a CIDR length n, octet by octet: an octet with b
\* leading one-bits is 256 - 2^(8 - b).
MaskTextOf(n) ==
  FormatIPv4([k \in 1..4 |->
    LET b == IF n >= 8 * k THEN 8 ELSE IF n <= 8 * (k - 1) THEN 0 ELSE n - 8 * (k - 1)
    IN  256 - 2 ^ (8 - b)])

\* The option value "/n" of the CIDR dropdown.
OptionOf(n) == Slash \o NumToString(n, 10)

\* The value the CIDR dropdown displays for the form state s.
DropdownValue(s) ==
  IF ~s.results.null THEN Slash \o NumToString(s.results.maskBits, 10) ELSE <<>>

\* What handleCIDRChange writes into the mask field for each option /n.
ChosenMask == [n \in 0..32 |-> MaskOfOption(OptionOf(n))]

\* C12: CIDR length and mask convert both ways without loss, for every n in
\* 0..32: maskToCidr(cidrToMask(n)) = n, and with a valid IPv4 address
\* entered, choosing /n in the CIDR dropdown writes the dotted mask of n into
\* the mask field, the calculation succeeds, and maskBits and the value the
\* dropdown displays are n.
C12_ChoosingCIDR ==
  [][\A n \in 0..32 :
       (/\ mode = "ipv4"
        /\ isValidIPAddress(SubnetCalculator.ipAddress)
        /\ SubnetCalculator'.subnetMask = ChosenMask[n]
        /\ handleCIDRChange(OptionOf(n), TRUE))
       => /\ convertMaskToCIDR(convertCIDRToMask(n)) = n
          /\ SubnetCalculator'.subnetMask = MaskTextOf(n)
          /\ SubnetCalculator'.error = NoError
          /\ ~SubnetCalculator'.results.null
          /\ SubnetCalculator'.results.maskBits = n
          /\ DropdownValue(SubnetCalculator') = OptionOf(n)]_allVars

\* /0 was chosen for a valid address: the mask field holds 0.0.0.0 and the
\* result has maskBits 0.
C12_Witness ==
  /\ Shows4
  /\ SubnetCalculator.subnetMask = <<"0", ".", "0", ".", "0", ".", "0">>
  /\ SubnetCalculator.results.maskBits = 0

\* The lines of a CSV text: the pieces between its line breaks.
Lines(data) ==
  LET breaks   == {i \in 1..Len(data) : <<data[i]>> = NewLine}
      Break(k) == CHOOSE i \in breaks : Cardinality({j \in breaks : j < i}) = k - 1
      n        == Cardinality(breaks)
  IN  [k \in 1..(n + 1) |->
         SubSeq(data,
                IF k = 1 THEN 1 ELSE Break(k - 1) + 1,
                IF k = n + 1 THEN Len(data) ELSE Break(k) - 1)]

StartsWith(s, prefix) ==
  Len(s) >= Len(prefix) /\ SubSeq(s, 1, Len(prefix)) = prefix

HeaderLine == LabelProperty \o Comma \o LabelValue

\* Only decimal digits, at least one.
IsDecimal(s) == s # <<>> /\ \A i \in 1..Len(s) : IsDigit(s[i], 10)

\* The lines an IPv4 result r must give, the Total Hosts value apart.
ExpectedLines4(r) ==
  <<HeaderLine,
    LabelNetworkAddress \o Comma \o r.networkAddress,
    LabelBroadcastAddress \o Comma \o r.broadcastAddress,
    LabelFirstHostIP \o Comma \o r.firstHostIP,
    LabelLastHostIP \o Comma \o r.lastHostIP,
    LabelTotalHosts \o Comma,
    LabelMaskBits \o Comma \o Slash \o DecimalText(r.maskBits),
    LabelIPClass \o Comma \o r.ipClass,
    LabelWildcardMask \o Comma \o r.wildcardMask>>

\* The lines an IPv6 result r must give.
ExpectedLines6(r) ==
  <<HeaderLine,
    LabelNetworkAddress \o Comma \o r.networkAddress,
    LabelLastAddress \o Comma \o r.lastAddress,
    LabelTotalAddresses \o Comma \o r.totalAddresses>>

\* Each line has exactly one comma.
TwoColumns(lines) ==
  \A i \in 1..Len(lines) :
    Cardinality({j \in 1..Len(lines[i]) : <<lines[i][j]>> = Comma}) = 1

\* Engine calls whose results the form never shows (rejected texts, prefix
\* lengths outside 0..128), beside those it does.
CsvEngineInputs ==
  {<<<<"g", ":", ":">>, 64>>,
   <<<<"1", " ", ":", ":">>, 0>>,
   <<<<":", ":">>, 0 - 1>>,
   <<Join(<<G1, G1, G1>>, Colon), 64>>,
   <<<<"1", "2", "3", "4", "5">> \o DoubleColon, 128>>,
   <<Join([i \in 1..GroupCount |-> Gffff], Colon), 129>>}

\* Every result calculateIPv6Subnet yields on those inputs serializes to
\* lines of two columns.
EngineResultsTwoColumns ==
  \A pair \in CsvEngineInputs :
    LET r == calculateIPv6Subnet(pair[1], pair[2]) IN
    r.null \/ /\ Lines(generateIPv6CSV(r)) = ExpectedLines6(r)
              /\ TwoColumns(Lines(generateIPv6CSV(r)))

\* C13: a CSV text is the Property,Value header line followed by exactly one
\* line per field in the fixed order: for an IPv4 result Network Address,
\* Broadcast Address, First Host IP, Last Host IP, Total Hosts, Mask Bits
\* (CIDR) as /<n>, IP Class, Wildcard Mask; for an IPv6 result Network
\* Address, Last Address, Total Addresses; and every line of an IPv6 result's
\* text has exactly one comma.
C13_CsvLines ==
  /\ download.name = "subnet-calculation" =>
       LET lines    == Lines(download.data)
           expected == ExpectedLines4(SubnetCalculator.results)
       IN  /\ Len(lines) = 9
           /\ \A i \in {1, 2, 3, 4, 5, 7, 8, 9} : lines[i] = expected[i]
           /\ StartsWith(lines[6], expected[6])
           /\ IsDecimal(SubSeq(lines[6], Len(expected[6]) + 1, Len(lines[6])))
  /\ download.name = "ipv6-subnet-calculation" =>
       LET lines == Lines(download.data) IN
       /\ lines = ExpectedLines6(IPv6SubnetCalculator.results)
       /\ TwoColumns(lines)
  /\ EngineResultsTwoColumns

\* An IPv6 result of 2^64 addresses was exported as four lines.
C13_Witness ==
  /\ download.name = "ipv6-subnet-calculation"
  /\ IPv6SubnetCalculator.results.totalAddresses = <<"2", "^", "6", "4">>
  /\ Len(Lines(download.data)) = 4

\* The prefix length field of the form state s holds a text parseInt reads as
\* an integer in 0..128.
PrefixInRange(s) ==
  /\ ~ParseDecimal(s.prefixLength).nan
  /\ ParseDecimal(s.prefixLength).value >= 0
  /\ ParseDecimal(s.prefixLength).value <= 128

\* Both fields of the IPv6 form state s pass the form's validation.
Validated6(s) ==
  /\ s.ipAddress # <<>>
  /\ s.prefixLength # <<>>
  /\ isValidIPv6Address(s.ipAddress)
  /\ PrefixInRange(s)

\* C15: in the IPv6 form, after any sequence of edits to the address and
\* prefix fields, the results shown are never stale and never accompany an
\* error: results is non-null only if the current address text is valid and
\* the current prefix parses to an integer in 0..128, and then results is
\* calculateIPv6Subnet(current address, current prefix) and error is null;
\* calculateIPv6Subnet never returns null for inputs that passed the form's
\* validation, so the error 'Error calculating subnet' never shows.
C15_ResultsCurrent ==
  mode = "ipv6" =>
    LET s == IPv6SubnetCalculator IN
    /\ ~s.results.null =>
         /\ Validated6(s)
         /\ s.results =
              calculateIPv6Subnet(s.ipAddress, ParseDecimal(s.prefixLength).value)
         /\ s.error = NoError
    /\ Validated6(s) =>
         /\ ~calculateIPv6Subnet(s.ipAddress, ParseDecimal(s.prefixLength).value).null
         /\ ~s.results.null
    /\ s.error # "Error calculating subnet"

\* A result is shown for an address the validator accepts although a group
\* is missing at its end, with a prefix text that has characters after the
\* number.
C15_Witness ==
  /\ Shows6
  /\ IPv6SubnetCalculator.ipAddress =
       <<"1", ":", "2", ":", "3", ":", "4", ":", "5", ":", "6", ":", "7", ":">>
  /\ IPv6SubnetCalculator.prefixLength = <<"6", "4", "a", "b", "c">>
  /\ IPv6SubnetCalculator.error = NoError

\* Both fields of the IPv4 form state s pass the form's validation.
Validated4(s) ==
  /\ s.ipAddress # <<>>
  /\ s.subnetMask # <<>>
  /\ isValidIPAddress(s.ipAddress)
  /\ isValidSubnetMask(s.subnetMask)

C17_EmptyFieldClears ==
  /\ (SubnetCalculator.ipAddress = <<>> \/ SubnetCalculator.subnetMask = <<>>) =>
       /\ SubnetCalculator.results.null
       /\ SubnetCalculator.error = NoError
       /\ SubnetCalculator.hostAddresses = <<>>
  /\ (IPv6SubnetCalculator.ipAddress = <<>> \/ IPv6SubnetCalculator.prefixLength = <<>>) =>
       /\ IPv6SubnetCalculator.results.null
       /\ IPv6SubnetCalculator.error = NoError

\* The IPv4 address field holds a rejected text and the mask field is empty:
\* neither an error nor a result is shown.
C17_Witness ==
  /\ mode = "ipv4"
  /\ SubnetCalculator.ipAddress # <<>>
  /\ ~isValidIPAddress(SubnetCalculator.ipAddress)
  /\ SubnetCalculator.subnetMask = <<>>
  /\ SubnetCalculator.error = NoError

(***************************************************************************)
(* Further claims about the engine                                         *)
(***************************************************************************)

\* The text t has the colon pattern pat at position i.
HasAt(t, pat, i) ==
  i >= 1 /\ i + Len(pat) - 1 <= Len(t) /\ SubSeq(t, i, i + Len(pat) - 1) = pat

\* t begins with a single colon, ends with a single colon, or has three
\* colons in a row.
StrayColon(t) ==
  \/ HasAt(t, Colon, 1) /\ ~HasAt(t, DoubleColon, 1)
  \/ HasAt(t, Colon, Len(t)) /\ ~HasAt(t, DoubleColon, Len(t) - 1)
  \/ \E i \in 1..Len(t) : HasAt(t, <<":", ":", ":">>, i)

\* C18: every text isValidIPv6Address accepts has only non-empty groups
\* apart from those its single "::" stands for: the validator never accepts
\* a text that begins or ends with a single colon, nor one with three
\* consecutive colons.
C18_NoStrayColon ==
  (call = "isValidIPv6Address" /\ valid) => ~StrayColon(Trim(address))

(***************************************************************************)
(* The claim about the copy indicator                                      *)
(***************************************************************************)

\* The copied cell of the mounted form.
Copied ==
  IF mode = "ipv4" THEN SubnetCalculator.copied ELSE IPv6SubnetCalculator.copied

\* C19: in either form, after the user copies a field, its 'Copied!' state
\* lasts until the timer started by that same copy fires; a timer started by
\* an earlier copy never clears it early.  The timers fire in the order they
\* were started, so while any timer is pending the timer of the latest copy
\* is, and the indicator of that copy must still show.
C19_CopiedUntilOwnTimer == copyTimers > 0 => Copied # ""

====
